---- MODULE Spec2Model ----
(***************************************************************************)
(* Model of the modular-arithmetic kernels, the scalar negacyclic NTT and  *)
(* the element-wise FMA of the library.                                    *)
(*                                                                         *)
(* The machine word (uint64_t) is modelled at WordBits bits: every         *)
(* unsigned operation of the code is taken modulo 2^WordBits, and the      *)
(* three Barrett shifts of the code keep their relation to the word:       *)
(*   64 (the whole word)           -> DefaultShiftBits = WordBits          *)
(*   52 (IFMA, word minus 12 bits) -> IfmaShiftBits    = WordBits - 2      *)
(*   32 (half a word)              -> HalfShiftBits    = WordBits \div 2   *)
(* and the 62-bit modulus limit of the NTT is two bits under the word.     *)
(***************************************************************************)
EXTENDS Integers, Sequences, FiniteSets, TLC

VARIABLES
    pc,          \* position of the modelled call
    arith,       \* arguments and result of a number-theory call
    ntt,         \* arguments of the transform: degree, mod, root tables, input
    elements,    \* the coefficient buffer the transform works on in place
    loop,        \* loop position of the running transform: m, i, j, j1, t, root_index
    ref,         \* buffer of the reference forward transform
    range_ok,    \* FALSE once a LATTICE_CHECK "Incorrect modulus reduction" fails
    fma,         \* arguments of the element-wise FMA call and the build/cpu flags
    mem,         \* the buffers the FMA call reads and writes, by buffer name
    backends     \* the FMA backends the dispatcher ran, in order

vars == <<pc, arith, ntt, elements, loop, ref, range_ok, fma, mem, backends>>

arithVars == <<arith>>
nttVars == <<ntt, elements, loop, ref, range_ok>>
fmaVars == <<fma, mem, backends>>

----------------------------------------------------------------------------
(* Bounds of the model *)

\* width of the modelled machine word, in bits
WordBits == 7

\* largest transform length explored
MaxDegree == 8

\* largest FMA vector length explored
MaxLen == 2

----------------------------------------------------------------------------
(* Machine words *)

Word == 2 ^ WordBits

MaxUInt == Word - 1

DefaultShiftBits == WordBits

IfmaShiftBits == WordBits - 2

HalfShiftBits == WordBits \div 2

\* uint64_t arithmetic wraps
Wrap(v) == v % Word

----------------------------------------------------------------------------
(* Integer primitives *)

MaximumValue(bits) ==
    IF bits = WordBits THEN MaxUInt ELSE (2 ^ bits) - 1

\* high part of the double-word product a * b after a right shift by BitShift
MultiplyUInt64Hi(BitShift, a, b) == Wrap((a * b) \div (2 ^ BitShift))

\* low word of the double-word quotient (x1:x0) / y
DivideUInt128UInt64Lo(x1, x0, y) == Wrap((x1 * Word + x0) \div y)

----------------------------------------------------------------------------
(* Barrett factor *)

MultiplyFactor(operand, bit_shift, modulus) ==
    LET op_hi == operand \div (2 ^ (WordBits - bit_shift))
        op_lo == IF bit_shift = WordBits THEN 0 ELSE Wrap(operand * (2 ^ bit_shift))
    IN  [m_operand |-> operand,
         m_barrett_factor |-> DivideUInt128UInt64Lo(op_hi, op_lo, modulus)]

BarrettFactor(mf) == mf.m_barrett_factor

Operand(mf) == mf.m_operand

----------------------------------------------------------------------------
(* Modular arithmetic *)

MultiplyModLazy(BitShift, x, y_operand, y_barrett_factor, modulus) ==
    LET Q == MultiplyUInt64Hi(BitShift, x, y_barrett_factor)
    IN  Wrap(Wrap(y_operand * x) - Wrap(Q * modulus))

\* the three-argument overload: computes the Barrett factor itself
MultiplyModLazy3(BitShift, x, y, modulus) ==
    LET y_barrett == BarrettFactor(MultiplyFactor(y, BitShift, modulus))
    IN  MultiplyModLazy(BitShift, x, y, y_barrett, modulus)

BarrettReduce64NoSubtract(input, modulus, q_barr) ==
    LET q == MultiplyUInt64Hi(WordBits, input, q_barr)
    IN  Wrap(input - Wrap(q * modulus))

BarrettReduce64(input, modulus, q_barr) ==
    LET q == MultiplyUInt64Hi(WordBits, input, q_barr)
        q_times_input == Wrap(input - Wrap(q * modulus))
    IN  IF q_times_input >= modulus THEN q_times_input - modulus ELSE q_times_input

\* one conditional subtraction: if (x >= m) x -= m
SubtractIf(x, m) == IF x >= m THEN x - m ELSE x

RECURSIVE SubtractChain(_, _)
\* the conditional subtractions of a branch, applied in their order
SubtractChain(x, chain) ==
    IF chain = <<>> THEN x
    ELSE SubtractChain(SubtractIf(x, Head(chain)), Tail(chain))

ReduceModStepsNoLast(InputModFactor, modulus, twice_modulus, four_times_modulus) ==
    IF InputModFactor = 1 THEN <<>>
    ELSE IF InputModFactor = 2 THEN <<>>
    ELSE IF InputModFactor = 4 THEN <<twice_modulus>>
    ELSE <<four_times_modulus, twice_modulus>>

\* the subtrahends of the conditional subtractions the branch of
\* InputModFactor makes, in the order of its statements
ReduceModSteps(InputModFactor, modulus, twice_modulus, four_times_modulus) ==
    IF InputModFactor = 1 THEN <<>>
    ELSE IF InputModFactor = 2 THEN <<modulus>>
    ELSE IF InputModFactor = 4 THEN <<twice_modulus, modulus>>
    ELSE <<four_times_modulus, twice_modulus, modulus>>

\* x mod modulus for x < InputModFactor * modulus; InputModFactor is 1, 2, 4 or 8
ReduceMod(InputModFactor, x, modulus, twice_modulus, four_times_modulus) ==
    SubtractChain(x, ReduceModSteps(InputModFactor, modulus, twice_modulus,
                                    four_times_modulus))

\* (x * y) mod modulus with the precomputed factor: lazy product, one
\* conditional subtraction
MultiplyMod(x, y, y_precon, modulus) ==
    LET Q == MultiplyUInt64Hi(WordBits, x, y_precon)
        r == Wrap(Wrap(x * y) - Wrap(Q * modulus))
    IN  IF r >= modulus THEN r - modulus ELSE r

\* (x * y) mod modulus without precomputation
MultiplyUIntMod(x, y, modulus) == (x * y) % modulus

AddUIntMod(x, y, modulus) ==
    LET sum == Wrap(x + y)
    IN  IF sum >= modulus THEN sum - modulus ELSE sum

SubUIntMod(x, y, modulus) ==
    LET diff == Wrap(Wrap(x + modulus) - y)
    IN  IF diff >= modulus THEN diff - modulus ELSE diff

RECURSIVE PowMod(_, _, _)
PowMod(base, exp, modulus) ==
    IF exp = 0 THEN 1 % modulus
    ELSE LET half == PowMod(base, exp \div 2, modulus)
             sq == MultiplyUIntMod(half, half, modulus)
         IN  IF exp % 2 = 1 THEN MultiplyUIntMod(sq, base % modulus, modulus) ELSE sq

InverseUIntMod(x, modulus) ==
    CHOOSE y \in 0..(modulus - 1) : (x * y) % modulus = 1 % modulus

----------------------------------------------------------------------------
(* Calls of the number-theory functions *)

\* operands tried for y: both ends of [0, q) and points in between
Operands(q) ==
    {y \in {0, 1, 2, 3, q \div 8, q \div 5, q \div 4, q \div 3, q \div 2,
            (2 * q) \div 3, (3 * q) \div 4, (7 * q) \div 8,
            q - 4, q - 3, q - 2, q - 1} : 0 <= y /\ y < q}

ArithCall(op, bits, x, y, q, pre) ==
    [op |-> op, bits |-> bits, x |-> x, y |-> y, q |-> q, pre |-> pre, res |-> 0, factor |-> 0]

NoArith == ArithCall("none", 0, 0, 0, 0, 0)

\* the calls explored: every modulus and every x the checks of the code accept.
\* A ReduceMod call keeps InputModFactor in bits, twice_modulus in y and
\* four_times_modulus in pre, both computed in the word as the callers do
\* (mod << 1), and returns the size of its subtraction chain in factor.
ArithInputs(call) ==
    \/ \E bits \in {IfmaShiftBits, DefaultShiftBits} :
       \E q \in 1..MaximumValue(bits) :
       \E y \in Operands(q) :
       \E x \in 0..MaximumValue(bits) :
          call = ArithCall("MultiplyModLazy", bits, x, y, q, (y * (2 ^ bits)) \div q)
    \/ \E bits \in {HalfShiftBits, IfmaShiftBits, DefaultShiftBits} :
       \E q \in 2..MaxUInt :
       \E operand \in 0..q :
          call = ArithCall("MultiplyFactor", bits, operand, 0, q, 0)
    \/ \E q \in 2..MaxUInt :
       \E x \in 0..MaxUInt :
          call = ArithCall("BarrettReduce64", WordBits, x, 0, q, Word \div q)
    \/ \E K \in {1, 2, 4, 8} :
       \E q \in 1..MaxUInt :
       \E x \in 0..MaxUInt :
          /\ x < K * q
          /\ call = ArithCall("ReduceMod", K, x, Wrap(2 * q), q, Wrap(4 * q))

\* the variables of the transform while another family of calls is explored
NoNTT ==
    /\ ntt = [degree |-> 0]
    /\ elements = <<>>
    /\ loop = [m |-> 0]
    /\ ref = <<>>
    /\ range_ok = TRUE

\* the variables of the FMA while another family of calls is explored
NoFMA ==
    /\ fma = [n |-> 0]
    /\ mem = <<>>
    /\ backends = <<>>

InitArith ==
    /\ pc = "arith_call"
    /\ ArithInputs(arith)
    /\ NoNTT
    /\ NoFMA

CallMultiplyModLazy ==
    /\ pc = "arith_call"
    /\ arith.op = "MultiplyModLazy"
    /\ arith' = [arith EXCEPT
                    !.res = MultiplyModLazy(arith.bits, arith.x, arith.y, arith.pre, arith.q)]
    /\ pc' = "arith_done"
    /\ UNCHANGED <<nttVars, fmaVars>>

CallMultiplyFactor ==
    /\ pc = "arith_call"
    /\ arith.op = "MultiplyFactor"
    /\ LET mf == MultiplyFactor(arith.x, arith.bits, arith.q)
       IN  arith' = [arith EXCEPT !.res = Operand(mf), !.factor = BarrettFactor(mf)]
    /\ pc' = "arith_done"
    /\ UNCHANGED <<nttVars, fmaVars>>

CallBarrettReduce64 ==
    /\ pc = "arith_call"
    /\ arith.op = "BarrettReduce64"
    /\ arith' = [arith EXCEPT !.res = BarrettReduce64(arith.x, arith.q, arith.pre)]
    /\ pc' = "arith_done"
    /\ UNCHANGED <<nttVars, fmaVars>>

CallReduceMod ==
    /\ pc = "arith_call"
    /\ arith.op = "ReduceMod"
    /\ arith' = [arith EXCEPT
                    !.res = ReduceMod(arith.bits, arith.x, arith.q, arith.y, arith.pre),
                    !.factor = Len(ReduceModSteps(arith.bits, arith.q, arith.y, arith.pre))]
    /\ pc' = "arith_done"
    /\ UNCHANGED <<nttVars, fmaVars>>

NextArith ==
    \/ CallMultiplyModLazy
    \/ CallMultiplyFactor
    \/ CallBarrettReduce64
    \/ CallReduceMod

SpecArith == InitArith /\ [][NextArith]_vars

ReturnedFrom(op) == pc = "arith_done" /\ arith.op = op

\* the result of the lazy product is congruent to x * y and below 2q
LazyResultOk ==
    /\ arith.res % arith.q = (arith.x * arith.y) % arith.q
    /\ 0 <= arith.res
    /\ arith.res < 2 * arith.q

\* C7: for every q <= MaximumValue(S), y < q, x <= MaximumValue(S) and
\* y_precon = floor((y << S) / q), MultiplyModLazy<S> returns r with
\* r mod q = (x * y) mod q and 0 <= r < 2q.
C7_LazyAnyModulus == ReturnedFrom("MultiplyModLazy") => LazyResultOk

\* The lazy product is right wherever 2q fits the word: for the IFMA shift
\* always, for the whole-word shift when q is at most half the word range.
LazyOkWhereTwiceModulusFits ==
    (/\ ReturnedFrom("MultiplyModLazy")
     /\ (arith.bits = DefaultShiftBits => 2 * arith.q <= Word))
    => LazyResultOk

\* C8: for every S in {32, 52, 64}, q >= 2 and operand <= q, the constructor
\* stores Operand() = operand and BarrettFactor() = floor(operand * 2^S / q),
\* the quotient not truncated.
C8_FactorExact ==
    ReturnedFrom("MultiplyFactor") =>
        /\ arith.res = arith.x
        /\ arith.factor = (arith.x * (2 ^ arith.bits)) \div arith.q

\* C9: for every q >= 2 and every word x, BarrettReduce64(x, q, floor(2^64/q))
\* returns x mod q, and input - Q * q does not go below zero.
C9_BarrettReduceExact ==
    ReturnedFrom("BarrettReduce64") =>
        /\ arith.res = arith.x % arith.q
        /\ MultiplyUInt64Hi(WordBits, arith.x, arith.pre) * arith.q <= arith.x

\* a reduction of an x >= q in which the conditional subtraction is taken
C9_Witness ==
    /\ ReturnedFrom("BarrettReduce64")
    /\ arith.x >= 2 * arith.q
    /\ arith.x - MultiplyUInt64Hi(WordBits, arith.x, arith.pre) * arith.q >= arith.q
    /\ arith.res = arith.x % arith.q

\* the multiples of the modulus handed to ReduceMod are 2q and 4q themselves
MultiplesSupplied ==
    /\ (arith.bits \in {4, 8} => arith.y = 2 * arith.q)
    /\ (arith.bits = 8 => arith.pre = 4 * arith.q)

\* C11: for every K in {1, 2, 4, 8}, every modulus q and every x < K * q,
\* with twice_modulus = 2q and four_times_modulus = 4q supplied where the
\* branch reads them, ReduceMod<K> returns x mod q, and its branch chains
\* 0, 1, 2 and 3 conditional subtractions.
C11_ReduceModExact ==
    (ReturnedFrom("ReduceMod") /\ MultiplesSupplied) =>
        /\ arith.res = arith.x % arith.q
        /\ 2 ^ arith.factor = arith.bits

\* a reduction from [0, 8q) in which all three subtractions are taken
C11_Witness ==
    /\ ReturnedFrom("ReduceMod")
    /\ MultiplesSupplied
    /\ arith.bits = 8
    /\ arith.x >= 7 * arith.q
    /\ arith.res = arith.x % arith.q
    /\ arith.factor = 3

----------------------------------------------------------------------------
(* Root tables of the transform *)

IsPowerOfTwo(num) == num > 0 /\ \E k \in 0..WordBits : num = 2 ^ k

RECURSIVE Log2(_)
Log2(x) == IF x <= 1 THEN 0 ELSE 1 + Log2(x \div 2)

RECURSIVE ReverseBits(_, _)
ReverseBits(x, bit_width) ==
    IF bit_width = 0 THEN 0
    ELSE (x % 2) * (2 ^ (bit_width - 1)) + ReverseBits(x \div 2, bit_width - 1)

IsPrime(n) == n >= 2 /\ \A d \in 2..(n - 1) : n % d # 0

IsPrimitiveRoot(root, degree, modulus) ==
    PowMod(root, degree \div 2, modulus) = modulus - 1

PrimitiveRoots(degree, modulus) ==
    {r \in 1..(modulus - 1) : IsPrimitiveRoot(r, degree, modulus)}

MinimalPrimitiveRoot(degree, modulus) ==
    CHOOSE r \in PrimitiveRoots(degree, modulus) :
        \A r2 \in PrimitiveRoots(degree, modulus) : r <= r2

\* the transform accepts a power-of-two length, a modulus that is 1 modulo
\* twice the length and that leaves two bits of the word free
CheckArguments(degree, mod) ==
    /\ IsPowerOfTwo(degree)
    /\ degree >= 2
    /\ mod % (2 * degree) = 1
    /\ mod < 2 ^ (WordBits - 2)

\* root_of_unity_powers[i] = w^(bit-reversed i)
RootOfUnityPowers(degree, mod, w) ==
    [i \in 0..(degree - 1) |-> PowMod(w, ReverseBits(i, Log2(degree)), mod)]

PreconRootOfUnityPowers(degree, mod, powers, bit_shift) ==
    [i \in 0..(degree - 1) |-> BarrettFactor(MultiplyFactor(powers[i], bit_shift, mod))]

\* the indices m + i in the order the inverse butterfly consumes them:
\* m = degree/2, degree/4, ..., 1 and i = 0 .. m-1
RECURSIVE InverseOrder(_)
InverseOrder(m) ==
    IF m = 0 THEN <<>>
    ELSE [k \in 1..m |-> m + k - 1] \o InverseOrder(m \div 2)

InvRootOfUnityPowers(degree, mod, powers) ==
    LET order == InverseOrder(degree \div 2)
    IN  [idx \in 0..(degree - 1) |->
            IF idx = 0 THEN InverseUIntMod(powers[0], mod)
            ELSE InverseUIntMod(powers[order[idx]], mod)]

----------------------------------------------------------------------------
(* Forward transform *)

FwdButterflyNoOffset(elems, j, t, W_op, W_precon, mod, twice_mod) ==
    LET X == elems[j]
        Y == elems[j + t]
        tx == Wrap(X - (IF X >= twice_mod THEN twice_mod ELSE 0))
        Q == MultiplyModLazy(DefaultShiftBits, Y, W_op, W_precon, mod)
    IN  [elems EXCEPT ![j] = Wrap(tx + Q),
                      ![j + t] = Wrap(tx - Q)]

FwdButterflyNoReduce(elems, j, t, W_op, W_precon, mod, twice_mod) ==
    LET X == elems[j]
        Y == elems[j + t]
        tx == X
        Q == MultiplyModLazy(DefaultShiftBits, Y, W_op, W_precon, mod)
    IN  [elems EXCEPT ![j] = Wrap(tx + Q),
                      ![j + t] = Wrap(Wrap(tx + twice_mod) - Q)]

\* the two words the forward butterfly holds before it writes: tx, the
\* element X brought below twice_mod, and Q, the lazy product of Y and the root
FwdButterflyTemporaries(elems, j, t, W_op, W_precon, mod, twice_mod) ==
    LET X == elems[j]
        Y == elems[j + t]
    IN  [tx |-> Wrap(X - (IF X >= twice_mod THEN twice_mod ELSE 0)),
         Q |-> MultiplyModLazy(DefaultShiftBits, Y, W_op, W_precon, mod)]

\* one Harvey butterfly of the forward transform on elements j and j + t
FwdButterfly(elems, j, t, W_op, W_precon, mod, twice_mod) ==
    LET X == elems[j]
        Y == elems[j + t]
        tx == Wrap(X - (IF X >= twice_mod THEN twice_mod ELSE 0))
        Q == MultiplyModLazy(DefaultShiftBits, Y, W_op, W_precon, mod)
    IN  [elems EXCEPT ![j] = Wrap(tx + Q),
                      ![j + t] = Wrap(Wrap(tx + twice_mod) - Q)]

ForwardNormalizeOnce(elems, n, mod, twice_mod) ==
    [i \in 0..(n - 1) |-> IF elems[i] >= mod THEN elems[i] - mod ELSE elems[i]]

\* the final loop: two conditional subtractions per element
ForwardNormalize(elems, n, mod, twice_mod) ==
    [i \in 0..(n - 1) |->
        LET e1 == IF elems[i] >= twice_mod THEN elems[i] - twice_mod ELSE elems[i]
        IN  IF e1 >= mod THEN e1 - mod ELSE e1]

\* the loop position after the inner-loop iteration at lp of a transform whose
\* levels run m = 1, 2, 4, ... < n
ForwardAdvance(lp, n) ==
    IF lp.j + 1 < lp.j1 + lp.t
    THEN [lp EXCEPT !.j = lp.j + 1]
    ELSE IF lp.i + 1 < lp.m
    THEN [lp EXCEPT !.i = lp.i + 1, !.j1 = lp.j1 + 2 * lp.t, !.j = lp.j1 + 2 * lp.t]
    ELSE [lp EXCEPT !.m = 2 * lp.m, !.i = 0, !.j1 = 0, !.j = 0, !.t = lp.t \div 2]

TwiceMod == Wrap(ntt.mod * 2)

\* entry of ForwardTransformToBitReverse64: argument check and loop set-up
ForwardEnter ==
    /\ pc = "ntt_call"
    /\ CheckArguments(ntt.degree, ntt.mod)
    /\ loop' = [m |-> 1, i |-> 0, j |-> 0, j1 |-> 0, t |-> ntt.degree \div 2, root_index |-> 0]
    /\ pc' = "fwd"
    /\ UNCHANGED <<ntt, elements, ref, range_ok, arithVars, fmaVars>>

\* one iteration of the innermost loop of the forward transform
ForwardStep ==
    /\ pc = "fwd"
    /\ elements' = FwdButterfly(elements, loop.j, loop.t,
                                ntt.root_of_unity_powers[loop.m + loop.i],
                                ntt.precon_root_of_unity_powers[loop.m + loop.i],
                                ntt.mod, TwiceMod)
    /\ loop' = ForwardAdvance(loop, ntt.degree)
    /\ pc' = IF loop'.m < ntt.degree THEN "fwd" ELSE "fwd_norm"
    /\ UNCHANGED <<ntt, ref, range_ok, arithVars, fmaVars>>

\* the normalisation loop of the forward transform and its range check
ForwardFinish ==
    /\ pc = "fwd_norm"
    /\ elements' = ForwardNormalize(elements, ntt.degree, ntt.mod, TwiceMod)
    /\ range_ok' = (range_ok /\ \A i \in 0..(ntt.degree - 1) : elements'[i] < ntt.mod)
    /\ pc' = "fwd_done"
    /\ UNCHANGED <<ntt, loop, ref, arithVars, fmaVars>>

----------------------------------------------------------------------------
(* Reference forward transform *)

RefButterfly(elems, j, t, W_op, mod) ==
    LET tx == elems[j]
        W_x_Y == MultiplyUIntMod(elems[j + t], W_op, mod)
    IN  [elems EXCEPT ![j] = AddUIntMod(tx, W_x_Y, mod),
                      ![j + t] = SubUIntMod(tx, W_x_Y, mod)]

RECURSIVE ReferenceLoop(_, _, _, _, _)
ReferenceLoop(degree, mod, root_of_unity_powers, elems, lp) ==
    IF ~(lp.m < degree) THEN elems
    ELSE ReferenceLoop(degree, mod, root_of_unity_powers,
                       RefButterfly(elems, lp.j, lp.t, root_of_unity_powers[lp.m + lp.i], mod),
                       ForwardAdvance(lp, degree))

ReferenceForwardTransformToBitReverse(degree, mod, root_of_unity_powers, elems) ==
    ReferenceLoop(degree, mod, root_of_unity_powers, elems,
                  [m |-> 1, i |-> 0, j |-> 0, j1 |-> 0, t |-> degree \div 2, root_index |-> 0])

\* the reference transform of the same input, for cross-validation
ReferenceCall ==
    /\ pc = "fwd_done"
    /\ CheckArguments(ntt.degree, ntt.mod)
    /\ ref' = ReferenceForwardTransformToBitReverse(ntt.degree, ntt.mod,
                                                    ntt.root_of_unity_powers, ntt.input)
    /\ pc' = "ref_done"
    /\ UNCHANGED <<ntt, elements, loop, range_ok, arithVars, fmaVars>>

----------------------------------------------------------------------------
(* Inverse transform *)

InvButterflyNoOffset(elems, j, t, W_op, mod, twice_mod) ==
    LET X == elems[j]
        Y == elems[j + t]
        tx == Wrap(X + Y)
        ty == Wrap(X - Y)
    IN  [elems EXCEPT ![j] = Wrap(tx - (IF tx >= twice_mod THEN twice_mod ELSE 0)),
                      ![j + t] = MultiplyModLazy3(DefaultShiftBits, ty, W_op, mod)]

InvButterflyNoReduce(elems, j, t, W_op, mod, twice_mod) ==
    LET X == elems[j]
        Y == elems[j + t]
        tx == Wrap(X + Y)
        ty == Wrap(Wrap(X + twice_mod) - Y)
    IN  [elems EXCEPT ![j] = tx,
                      ![j + t] = MultiplyModLazy3(DefaultShiftBits, ty, W_op, mod)]

\* the two words the inverse butterfly on X = elems[jX] and Y = elems[jY]
\* computes first: tx = X + Y and ty = X + twice_mod - Y
InvButterflyTemporaries(elems, jX, jY, twice_mod) ==
    [tx |-> Wrap(elems[jX] + elems[jY]),
     ty |-> Wrap(Wrap(elems[jX] + twice_mod) - elems[jY])]

\* one butterfly of the levels m = n/2 .. 2 of the inverse transform
InvButterfly(elems, j, t, W_op, mod, twice_mod) ==
    LET X == elems[j]
        Y == elems[j + t]
        tx == Wrap(X + Y)
        ty == Wrap(Wrap(X + twice_mod) - Y)
    IN  [elems EXCEPT ![j] = Wrap(tx - (IF tx >= twice_mod THEN twice_mod ELSE 0)),
                      ![j + t] = MultiplyModLazy3(DefaultShiftBits, ty, W_op, mod)]

InvFinalButterflyNoScale(elems, j, n, W_op, mod, twice_mod) ==
    LET X == elems[j - n \div 2]
        Y == elems[j]
        tx0 == Wrap(X + Y)
        tx == Wrap(tx0 - (IF tx0 >= twice_mod THEN twice_mod ELSE 0))
        ty == Wrap(Wrap(X + twice_mod) - Y)
    IN  [elems EXCEPT ![j - n \div 2] = tx,
                      ![j] = MultiplyModLazy3(DefaultShiftBits, ty, W_op, mod)]

\* one butterfly of the last level, fused with the scaling by 1/n
InvFinalButterfly(elems, j, n, W_op, mod, twice_mod) ==
    LET inv_n == InverseUIntMod(n, mod)
        inv_n_w == MultiplyUIntMod(inv_n, W_op, mod)
        X == elems[j - n \div 2]
        Y == elems[j]
        tx0 == Wrap(X + Y)
        tx == Wrap(tx0 - (IF tx0 >= twice_mod THEN twice_mod ELSE 0))
        ty == Wrap(Wrap(X + twice_mod) - Y)
    IN  [elems EXCEPT ![j - n \div 2] = MultiplyModLazy3(DefaultShiftBits, tx, inv_n, mod),
                      ![j] = MultiplyModLazy3(DefaultShiftBits, ty, inv_n_w, mod)]

\* the loop position after the inner-loop iteration at lp of the inverse
\* transform, whose levels run m = n/2, n/4, ... > 1
InverseAdvance(lp) ==
    IF lp.j + 1 < lp.j1 + lp.t
    THEN [lp EXCEPT !.j = lp.j + 1]
    ELSE IF lp.i + 1 < lp.m
    THEN [lp EXCEPT !.i = lp.i + 1, !.root_index = lp.root_index + 1,
                    !.j1 = lp.j1 + 2 * lp.t, !.j = lp.j1 + 2 * lp.t]
    ELSE [lp EXCEPT !.m = lp.m \div 2, !.i = 0, !.root_index = lp.root_index + 1,
                    !.j1 = 0, !.j = 0, !.t = 2 * lp.t]

\* the two conditional subtractions of the last loop
InverseNormalize(elems, n, mod, twice_mod) ==
    [i \in 0..(n - 1) |->
        LET e1 == IF elems[i] >= twice_mod THEN elems[i] - twice_mod ELSE elems[i]
        IN  IF e1 >= mod THEN e1 - mod ELSE e1]

\* entry of InverseTransformToBitReverse64 on the output of the forward
\* transform; with n = 2 the level loop runs zero times
InverseEnter ==
    /\ pc = "ref_done"
    /\ CheckArguments(ntt.degree, ntt.mod)
    /\ loop' = [m |-> ntt.degree \div 2, i |-> 0, j1 |-> 0, t |-> 1, root_index |-> 1,
                j |-> IF ntt.degree \div 2 > 1 THEN 0 ELSE ntt.degree \div 2]
    /\ pc' = IF ntt.degree \div 2 > 1 THEN "inv" ELSE "inv_final"
    /\ UNCHANGED <<ntt, elements, ref, range_ok, arithVars, fmaVars>>

\* one iteration of the innermost loop of the levels m = n/2 .. 2
InverseStep ==
    /\ pc = "inv"
    /\ elements' = InvButterfly(elements, loop.j, loop.t,
                                ntt.inv_root_of_unity_powers[loop.root_index],
                                ntt.mod, TwiceMod)
    /\ LET lp == InverseAdvance(loop)
       IN  IF lp.m > 1
           THEN /\ loop' = lp
                /\ pc' = "inv"
           ELSE /\ loop' = [lp EXCEPT !.j = ntt.degree \div 2]
                /\ pc' = "inv_final"
    /\ UNCHANGED <<ntt, ref, range_ok, arithVars, fmaVars>>

\* one iteration j = n/2 .. n-1 of the last level
InverseFinalStep ==
    /\ pc = "inv_final"
    /\ elements' = InvFinalButterfly(elements, loop.j, ntt.degree,
                                     ntt.inv_root_of_unity_powers[loop.root_index],
                                     ntt.mod, TwiceMod)
    /\ loop' = [loop EXCEPT !.j = loop.j + 1]
    /\ pc' = IF loop.j + 1 < ntt.degree THEN "inv_final" ELSE "inv_norm"
    /\ UNCHANGED <<ntt, ref, range_ok, arithVars, fmaVars>>

\* the normalisation loop of the inverse transform and its range check
InverseFinish ==
    /\ pc = "inv_norm"
    /\ elements' = InverseNormalize(elements, ntt.degree, ntt.mod, TwiceMod)
    /\ range_ok' = (range_ok /\ \A i \in 0..(ntt.degree - 1) : elements'[i] < ntt.mod)
    /\ pc' = "ntt_done"
    /\ UNCHANGED <<ntt, loop, ref, arithVars, fmaVars>>

----------------------------------------------------------------------------
(* The transforms explored *)

Degrees == {n \in 2..MaxDegree : IsPowerOfTwo(n)}

Moduli(degree) == {q \in 2..MaxUInt : CheckArguments(degree, q) /\ IsPrime(q)}

\* roots tried: the minimal primitive 2n-th root and the largest one
Roots(degree, mod) ==
    LET all == PrimitiveRoots(2 * degree, mod)
    IN  {MinimalPrimitiveRoot(2 * degree, mod)} \cup {r \in all : \A r2 \in all : r2 <= r}

\* coefficient values tried: every residue for the shortest transform, the
\* ends of [0, q) for the longer ones
Coefficients(degree, mod) ==
    IF degree = 2 THEN 0..(mod - 1)
    ELSE IF degree = 4 THEN {0, 1, 2, mod - 2, mod - 1}
    ELSE {0, 1, mod - 1}

InitNTT ==
    /\ pc = "ntt_call"
    /\ \E degree \in Degrees :
       \E mod \in Moduli(degree) :
       \E w \in Roots(degree, mod) :
       \E input \in [0..(degree - 1) -> Coefficients(degree, mod)] :
          LET powers == RootOfUnityPowers(degree, mod, w)
          IN  /\ ntt = [degree |-> degree, mod |-> mod, w |-> w, input |-> input,
                        root_of_unity_powers |-> powers,
                        precon_root_of_unity_powers |->
                            PreconRootOfUnityPowers(degree, mod, powers, DefaultShiftBits),
                        inv_root_of_unity_powers |-> InvRootOfUnityPowers(degree, mod, powers)]
              /\ elements = input
    /\ loop = [m |-> 0, i |-> 0, j |-> 0, j1 |-> 0, t |-> 0, root_index |-> 0]
    /\ ref = <<>>
    /\ range_ok = TRUE
    /\ arith = NoArith
    /\ NoFMA

NextNTT ==
    \/ ForwardEnter
    \/ ForwardStep
    \/ ForwardFinish
    \/ ReferenceCall
    \/ InverseEnter
    \/ InverseStep
    \/ InverseFinalStep
    \/ InverseFinish

SpecNTT == InitNTT /\ [][NextNTT]_vars

\* C1: for every admissible (N, q), root tables built from a primitive 2N-th
\* root and every input with entries in [0, q), the forward transform
\* followed by the inverse transform leaves the buffer equal to the input.
C1_RoundTrip == pc = "ntt_done" => elements = ntt.input

\* the round trip of the unit vector at the largest length explored
C1_Witness ==
    /\ pc = "ntt_done"
    /\ ntt.degree = 8
    /\ ntt.input = [i \in 0..7 |-> IF i = 0 THEN 1 ELSE 0]
    /\ elements = ntt.input
    /\ ref # ntt.input

\* C5: on the same root table and the same input in [0, q), the fast scalar
\* forward transform and the reference forward transform leave identical
\* buffers.
C5_FastEqualsReference == pc = "ref_done" => elements = ref

\* both transforms ran on a multi-level transform and changed the input
C5_Witness ==
    /\ pc = "ref_done"
    /\ ntt.degree >= 4
    /\ elements = ref
    /\ \A i \in 0..(ntt.degree - 1) : ref[i] # ntt.input[i]

\* C6: when the forward transform returns, every element is in [0, q) and
\* the check "Incorrect modulus reduction" has not failed.
C6_ForwardOutputRange ==
    pc = "fwd_done" =>
        /\ range_ok
        /\ \A i \in 0..(ntt.degree - 1) : 0 <= elements[i] /\ elements[i] < ntt.mod

\* a multi-level forward transform returned, with q - 1 among its inputs
\* and among its outputs
C6_Witness ==
    /\ pc = "fwd_done"
    /\ range_ok
    /\ ntt.degree >= 4
    /\ \E i \in 0..(ntt.degree - 1) : elements[i] = ntt.mod - 1
    /\ \E i \in 0..(ntt.degree - 1) : ntt.input[i] = ntt.mod - 1

\* every element of the buffer is below bound
AllBelow(bound) == \A i \in 0..(ntt.degree - 1) : 0 <= elements[i] /\ elements[i] < bound

\* tx and Q of the forward butterfly about to run
ForwardTemporaries ==
    FwdButterflyTemporaries(elements, loop.j, loop.t,
                            ntt.root_of_unity_powers[loop.m + loop.i],
                            ntt.precon_root_of_unity_powers[loop.m + loop.i],
                            ntt.mod, TwiceMod)

\* C12: for q two bits under the word and inputs in [0, q), between the
\* butterflies of the forward transform (at the entry of each and at the
\* exit of each) the elements are in [0, 4q); in the butterfly about to run
\* tx and Q are in [0, 2q), and neither tx + Q nor tx + 2q - Q leaves the word.
C12_ForwardLazyRange ==
    /\ (pc \in {"fwd", "fwd_norm"} => AllBelow(4 * ntt.mod))
    /\ (pc = "fwd" =>
          LET tx == ForwardTemporaries.tx
              Q == ForwardTemporaries.Q
          IN  /\ elements[loop.j] < 4 * ntt.mod
              /\ elements[loop.j + loop.t] < 4 * ntt.mod
              /\ 0 <= tx /\ tx < 2 * ntt.mod
              /\ 0 <= Q /\ Q < 2 * ntt.mod
              /\ tx + Q < Word
              /\ tx + 2 * ntt.mod - Q >= 0
              /\ tx + 2 * ntt.mod - Q < Word)

\* a butterfly of a later level is entered with X at or above 3q, so that
\* the subtraction of 2q is taken, and with Q at or above q
C12_Witness ==
    /\ pc = "fwd"
    /\ loop.m >= 2
    /\ elements[loop.j] >= 3 * ntt.mod
    /\ elements[loop.j] < 4 * ntt.mod
    /\ ForwardTemporaries.tx = elements[loop.j] - 2 * ntt.mod
    /\ ForwardTemporaries.Q >= ntt.mod

\* the positions of X and Y of the inverse butterfly about to run
InverseX == IF pc = "inv" THEN loop.j ELSE loop.j - ntt.degree \div 2

InverseY == IF pc = "inv" THEN loop.j + loop.t ELSE loop.j

\* C13: for q two bits under the word and an input in [0, q), between the
\* butterflies of the inverse transform, those of the last level fused with
\* the scaling by 1/N included, the elements are in [0, 2q); in the butterfly
\* about to run ty = X + 2q - Y neither goes below zero nor leaves the word;
\* and on return every element is in [0, q) and the check "Incorrect modulus
\* reduction" has not failed.
C13_InverseLazyRange ==
    /\ (pc \in {"inv", "inv_final", "inv_norm"} => AllBelow(2 * ntt.mod))
    /\ (pc \in {"inv", "inv_final"} =>
          LET ty == elements[InverseX] + 2 * ntt.mod - elements[InverseY]
          IN  /\ 0 <= ty
              /\ elements[InverseX] + 2 * ntt.mod < Word
              /\ ty < Word
              /\ InvButterflyTemporaries(elements, InverseX, InverseY, TwiceMod).ty = ty)
    /\ (pc = "ntt_done" => range_ok /\ AllBelow(ntt.mod))

\* a butterfly of the last level, after butterflies of an earlier level, is
\* entered with Y above X, so that ty needs the 2q, and with Y at or above q
C13_Witness ==
    /\ pc = "inv_final"
    /\ ntt.degree >= 4
    /\ loop.j > ntt.degree \div 2
    /\ elements[InverseY] > elements[InverseX]
    /\ elements[InverseY] >= ntt.mod
    /\ elements[loop.j - 1] >= ntt.mod
    /\ AllBelow(2 * ntt.mod)

----------------------------------------------------------------------------
(* Dispatch of the forward transform *)

\* s_max_ifma_modulus: the IFMA backend takes moduli two bits under its shift
MaxIfmaModulus == 2 ^ (IfmaShiftBits - 2)

\* the butterfly of the vector backend instantiated with shift BitShift
FwdButterflyAVX512(BitShift, elems, j, t, W_op, W_precon, mod, twice_mod) ==
    LET X == elems[j]
        Y == elems[j + t]
        tx == Wrap(X - (IF X >= twice_mod THEN twice_mod ELSE 0))
        Q == MultiplyModLazy(BitShift, Y, W_op, W_precon, mod)
    IN  [elems EXCEPT ![j] = Wrap(tx + Q),
                      ![j + t] = Wrap(Wrap(tx + twice_mod) - Q)]

RECURSIVE AVX512Loop(_, _, _, _, _, _, _)
AVX512Loop(BitShift, degree, mod, root_of_unity_powers, precon_root_of_unity_powers, elems, lp) ==
    IF ~(lp.m < degree) THEN elems
    ELSE AVX512Loop(BitShift, degree, mod, root_of_unity_powers,
                    precon_root_of_unity_powers,
                    FwdButterflyAVX512(BitShift, elems, lp.j, lp.t,
                                       root_of_unity_powers[lp.m + lp.i],
                                       precon_root_of_unity_powers[lp.m + lp.i],
                                       mod, Wrap(mod * 2)),
                    ForwardAdvance(lp, degree))

\* the vector backend: the algorithm of the scalar transform with the lazy
\* product taken at shift BitShift
ForwardTransformToBitReverseAVX512(BitShift, degree, mod, root_of_unity_powers, precon_root_of_unity_powers, elems) ==
    ForwardNormalize(
        AVX512Loop(BitShift, degree, mod, root_of_unity_powers,
                   precon_root_of_unity_powers, elems,
                   [m |-> 1, i |-> 0, j |-> 0, j1 |-> 0, t |-> degree \div 2,
                    root_index |-> 0]),
        degree, mod, Wrap(mod * 2))

Backend(name, shift) == [name |-> name, shift |-> shift]

\* the wrapper ForwardTransformToBitReverse: the check of bit_shift, then the
\* first backend the build holds and the arguments admit.  The vector
\* backends run to their end; the scalar backend is entered at its first
\* statement.
ForwardTransformToBitReverse ==
    /\ pc = "dispatch_call"
    /\ ntt.bit_shift \in {IfmaShiftBits, DefaultShiftBits}
    /\ IF ntt.build_ifma /\ ntt.bit_shift = IfmaShiftBits /\ ntt.mod < MaxIfmaModulus
       THEN /\ ntt' = [ntt EXCEPT !.backend = Backend("AVX512-IFMA", IfmaShiftBits)]
            /\ elements' = ForwardTransformToBitReverseAVX512(
                                IfmaShiftBits, ntt.degree, ntt.mod,
                                ntt.root_of_unity_powers,
                                ntt.precon_root_of_unity_powers, elements)
            /\ pc' = "fwd_done"
       ELSE IF ntt.build_avx512f
       THEN /\ ntt' = [ntt EXCEPT !.backend = Backend("AVX512", DefaultShiftBits)]
            /\ elements' = ForwardTransformToBitReverseAVX512(
                                DefaultShiftBits, ntt.degree, ntt.mod,
                                ntt.root_of_unity_powers,
                                ntt.precon_root_of_unity_powers, elements)
            /\ pc' = "fwd_done"
       ELSE /\ ntt' = [ntt EXCEPT !.backend = Backend("64", DefaultShiftBits)]
            /\ elements' = elements
            /\ pc' = "ntt_call"
    /\ UNCHANGED <<loop, ref, range_ok, arithVars, fmaVars>>

\* lengths of the dispatched transforms
DispatchDegrees == {n \in Degrees : n <= 4}

\* a caller that built the Barrett table of the roots with the shift it
\* passes as bit_shift, on every build
InitDispatch ==
    /\ pc = "dispatch_call"
    /\ \E degree \in DispatchDegrees :
       \E mod \in Moduli(degree) :
       \E w \in Roots(degree, mod) :
       \E input \in [0..(degree - 1) -> Coefficients(degree, mod)] :
       \E bit_shift \in {IfmaShiftBits, DefaultShiftBits} :
       \E build_ifma \in BOOLEAN :
       \E build_avx512f \in BOOLEAN :
          LET powers == RootOfUnityPowers(degree, mod, w)
          IN  /\ ntt = [degree |-> degree, mod |-> mod, w |-> w, input |-> input,
                        root_of_unity_powers |-> powers,
                        precon_root_of_unity_powers |->
                            PreconRootOfUnityPowers(degree, mod, powers, bit_shift),
                        bit_shift |-> bit_shift,
                        build_ifma |-> build_ifma,
                        build_avx512f |-> build_avx512f,
                        backend |-> Backend("none", 0)]
              /\ elements = input
    /\ loop = [m |-> 0, i |-> 0, j |-> 0, j1 |-> 0, t |-> 0, root_index |-> 0]
    /\ ref = <<>>
    /\ range_ok = TRUE
    /\ arith = NoArith
    /\ NoFMA

NextDispatch ==
    \/ ForwardTransformToBitReverse
    \/ ForwardEnter
    \/ ForwardStep
    \/ ForwardFinish
    \/ ReferenceCall

SpecDispatch == InitDispatch /\ [][NextDispatch]_vars

Dispatched == pc # "dispatch_call"

\* C14: for every accepted bit_shift, every modulus and every build, the
\* backend the wrapper runs uses the shift bit_shift with which the caller
\* built precon_root_of_unity_powers: the IFMA backend runs only with the
\* IFMA shift and a modulus below the IFMA bound, and a backend of the
\* whole-word shift never runs on a table built with the IFMA shift.
C14_ShiftConsistent ==
    Dispatched =>
        /\ ntt.backend.shift = ntt.bit_shift
        /\ (ntt.backend.name = "AVX512-IFMA" =>
               ntt.bit_shift = IfmaShiftBits /\ ntt.mod < MaxIfmaModulus)

\* The backend the wrapper ran agrees with the reference transform wherever
\* its shift is the shift of the table.
DispatchedEqualsReferenceWhereShiftMatches ==
    (pc = "ref_done" /\ ntt.backend.shift = ntt.bit_shift) => elements = ref

\* The IFMA backend runs only with the IFMA shift and a modulus below its bound.
IfmaBackendOnlyWhereAdmitted ==
    (Dispatched /\ ntt.backend.name = "AVX512-IFMA") =>
        ntt.bit_shift = IfmaShiftBits /\ ntt.mod < MaxIfmaModulus

\* Every dispatched transform agrees with the reference transform.
DispatchedEqualsReference == pc = "ref_done" => elements = ref

----------------------------------------------------------------------------
(* Element-wise FMA *)

\* value of the words no call has written
Unwritten == MaxUInt

\* the loop for arg3 == nullptr: *out++ = MultiplyMod(*arg1++, ...)
MulLoop(m, arg1, arg2, out, factor, n, modulus) ==
    LET RECURSIVE Go(_, _)
        Go(mm, i) ==
            IF i >= n THEN mm
            ELSE Go([mm EXCEPT ![out][i] = MultiplyMod(mm[arg1][i], arg2, factor, modulus)],
                    i + 1)
    IN  Go(m, 0)

\* the loop for arg3 != nullptr: the two statements write the same *out, the
\* second reading *arg1 and *arg3 after the first has written
FMALoop(m, arg1, arg2, arg3, out, factor, n, modulus) ==
    LET RECURSIVE Go(_, _)
        Go(mm, i) ==
            IF i >= n THEN mm
            ELSE LET m1 == [mm EXCEPT ![out][i] =
                               MultiplyMod(mm[arg1][i], arg2, factor, modulus)]
                     m2 == [m1 EXCEPT ![out][i] =
                               AddUIntMod(m1[arg1][i], m1[arg3][i], modulus)]
                 IN  Go(m2, i + 1)
    IN  Go(m, 0)

EltwiseFMAModNative(m, arg1, arg2, arg3, out, n, modulus) ==
    LET mf == MultiplyFactor(arg2, DefaultShiftBits, modulus)
    IN  IF arg3 # "null"
        THEN FMALoop(m, arg1, arg2, arg3, out, BarrettFactor(mf), n, modulus)
        ELSE MulLoop(m, arg1, arg2, out, BarrettFactor(mf), n, modulus)

\* the vector backends: out[i] = (arg1[i] * arg2 + arg3[i]) mod modulus, each
\* element computed from the inputs at index i
EltwiseFMAModAVX512(BitShift, m, arg1, arg2, arg3, out, barr, n, modulus) ==
    [m EXCEPT ![out] =
        [i \in DOMAIN m[out] |->
            IF i >= n THEN m[out][i]
            ELSE (m[arg1][i] * arg2 + (IF arg3 = "null" THEN 0 ELSE m[arg3][i])) % modulus]]

\* the dispatcher: the memory it leaves and the backends it ran
EltwiseFMAMod(m, f) ==
    IF f.build_ifma /\ f.has_avx512_ifma /\ f.modulus < 2 ^ IfmaShiftBits
    THEN [mem |-> EltwiseFMAModAVX512(IfmaShiftBits, m, f.arg1, f.arg2, f.arg3, f.out,
                      BarrettFactor(MultiplyFactor(f.arg2, IfmaShiftBits, f.modulus)),
                      f.n, f.modulus),
          ran |-> <<"EltwiseFMAModAVX512_52">>]
    ELSE IF f.build_dq
    THEN IF f.has_avx512_dq
         THEN [mem |-> EltwiseFMAModAVX512(DefaultShiftBits, m, f.arg1, f.arg2, f.arg3, f.out,
                           BarrettFactor(MultiplyFactor(f.arg2, DefaultShiftBits, f.modulus)),
                           f.n, f.modulus),
               ran |-> <<"EltwiseFMAModAVX512_64">>]
         ELSE [mem |-> m, ran |-> <<>>]
    ELSE [mem |-> EltwiseFMAModNative(m, f.arg1, f.arg2, f.arg3, f.out, f.n, f.modulus),
          ran |-> <<"EltwiseFMAModNative">>]

\* a direct call of the scalar backend
CallEltwiseFMAModNative ==
    /\ pc = "fma_call"
    /\ fma.entry = "EltwiseFMAModNative"
    /\ mem' = EltwiseFMAModNative(mem, fma.arg1, fma.arg2, fma.arg3, fma.out, fma.n, fma.modulus)
    /\ backends' = <<"EltwiseFMAModNative">>
    /\ pc' = "fma_done"
    /\ UNCHANGED <<fma, arithVars, nttVars>>

\* a call through the dispatcher
CallEltwiseFMAMod ==
    /\ pc = "fma_call"
    /\ fma.entry = "EltwiseFMAMod"
    /\ fma.modulus # 0
    /\ LET r == EltwiseFMAMod(mem, fma)
       IN  /\ mem' = r.mem
           /\ backends' = r.ran
    /\ pc' = "fma_done"
    /\ UNCHANGED <<fma, arithVars, nttVars>>

----------------------------------------------------------------------------
(* The FMA calls explored *)

\* moduli tried: the smallest ones and those around a quarter, a half and
\* the whole of the word range
FMAModuli ==
    {q \in {1, 2, 3, 5, Word \div 4 - 1, Word \div 2 - 1, Word \div 2, Word \div 2 + 1,
            Word - 3, Word - 2, MaxUInt} : q >= 1}

Arg1Values(q) == {0, q \div 2, q - 1}

Arg2Values(q) == {v \in {0, 1, q \div 2, q - 1} : v < q}

Arg3Values(q) == {q \div 2, q - 1}

\* a buffer of n words chosen from vals, followed by one word past its end
Buffers(n, vals) ==
    {[i \in 0..n |-> IF i < n THEN v[i] ELSE Unwritten] : v \in [0..(n - 1) -> vals]}

EmptyBuffer(n) == [i \in 0..n |-> Unwritten]

FMACall(entry, arg2, arg3, out, n, q, m, flags) ==
    [entry |-> entry, arg1 |-> "A", arg2 |-> arg2, arg3 |-> arg3, out |-> out,
     n |-> n, modulus |-> q, mem0 |-> m,
     build_ifma |-> flags[1], build_dq |-> flags[2],
     has_avx512_ifma |-> flags[3], has_avx512_dq |-> flags[4]]

NoFlags == <<FALSE, FALSE, FALSE, FALSE>>

\* the seed case of the element-wise FMA: ([1,2,3,4] * 5 + [10,20,30,40]) mod 97
ExampleMemory ==
    [A |-> <<1, 2, 3, 4, Unwritten>>,
     B |-> <<10, 20, 30, 40, Unwritten>>,
     O |-> <<Unwritten, Unwritten, Unwritten, Unwritten, Unwritten>>]

ZeroBased(sq) == [i \in 0..(Len(sq) - 1) |-> sq[i + 1]]

InitFMA ==
    /\ pc = "fma_call"
    /\ backends = <<>>
    /\ \/ /\ mem = [b \in {"A", "B", "O"} |-> ZeroBased(ExampleMemory[b])]
          /\ fma = FMACall("EltwiseFMAModNative", 5, "B", "O", 4, 97, mem, NoFlags)
       \/ \E q \in FMAModuli :
          \E n \in 1..MaxLen :
          \E a \in Buffers(n, Arg1Values(q)) :
          \E b \in Buffers(n, Arg3Values(q)) :
          \E arg2 \in Arg2Values(q) :
          \E arg3 \in {"B", "null"} :
             /\ mem = [A |-> a, B |-> IF arg3 = "null" THEN EmptyBuffer(n) ELSE b,
                       O |-> EmptyBuffer(n)]
             /\ \/ \E out \in {"O", "A", "B"} :
                      /\ (arg3 = "null" => out # "B")
                      /\ fma = FMACall("EltwiseFMAModNative", arg2, arg3, out, n, q, mem, NoFlags)
                \/ \E flags \in BOOLEAN \X BOOLEAN \X BOOLEAN \X BOOLEAN :
                      fma = FMACall("EltwiseFMAMod", arg2, arg3, "O", n, q, mem, flags)
    /\ arith = NoArith
    /\ NoNTT

NextFMA ==
    \/ CallEltwiseFMAModNative
    \/ CallEltwiseFMAMod

SpecFMA == InitFMA /\ [][NextFMA]_vars

ReturnedFromNative == pc = "fma_done" /\ fma.entry = "EltwiseFMAModNative"

\* what the scalar backend leaves in a separate out buffer for the same inputs
SeparateOut ==
    EltwiseFMAModNative(fma.mem0, fma.arg1, fma.arg2, fma.arg3, "O", fma.n, fma.modulus)["O"]

\* C2: with arg3 present and out not overlapping the inputs, after
\* EltwiseFMAModNative out[i] = (arg1[i] * arg2 + arg3[i]) mod q for every i < n.
C2_FMAWithAddend ==
    (ReturnedFromNative /\ fma.arg3 # "null" /\ fma.out = "O") =>
        \A i \in 0..(fma.n - 1) :
            mem["O"][i] = (fma.mem0["A"][i] * fma.arg2 + fma.mem0["B"][i]) % fma.modulus

\* C3: with arg3 present, the values left in out when out is the buffer of
\* arg1 or the buffer of arg3 equal the values left in a separate out buffer.
C3_AliasedEqualsSeparate ==
    (ReturnedFromNative /\ fma.arg3 # "null" /\ fma.out \in {"A", "B"}) =>
        \A i \in 0..(fma.n - 1) : mem[fma.out][i] = SeparateOut[i]

\* C4: a call through the dispatcher runs exactly one backend, leaves in out
\* what the scalar backend would leave, and runs the scalar backend when
\* neither ifma nor avx512dq is detected at run time.
C4_DispatchOneBackend ==
    (pc = "fma_done" /\ fma.entry = "EltwiseFMAMod") =>
        /\ Len(backends) = 1
        /\ \A i \in 0..(fma.n - 1) : mem[fma.out][i] = SeparateOut[i]
        /\ (~fma.has_avx512_ifma /\ ~fma.has_avx512_dq) => backends = <<"EltwiseFMAModNative">>

\* after a call with arg3 == nullptr: the n products are in out, the word
\* past the end of out is not written and no other buffer has changed
ProductsWritten ==
    /\ \A i \in 0..(fma.n - 1) :
          mem[fma.out][i] = (fma.mem0["A"][i] * fma.arg2) % fma.modulus
    /\ mem[fma.out][fma.n] = fma.mem0[fma.out][fma.n]
    /\ \A b \in {"A", "B", "O"} \ {fma.out} : mem[b] = fma.mem0[b]

\* C10: with arg3 absent, for every q != 0, arg2 < q and arg1 entries < q,
\* out[i] = (arg1[i] * arg2) mod q for every i < n, exactly n elements of
\* out are written and arg1 is unchanged when out is separate.
C10_ProductAnyModulus ==
    (ReturnedFromNative /\ fma.arg3 = "null") => ProductsWritten

\* The products are right wherever 2q fits the word.
ProductsOkWhereTwiceModulusFits ==
    (ReturnedFromNative /\ fma.arg3 = "null" /\ 2 * fma.modulus <= Word) => ProductsWritten

----------------------------------------------------------------------------
(* All the calls together *)

Init == InitArith \/ InitNTT \/ InitDispatch \/ InitFMA

Next == NextArith \/ NextNTT \/ NextDispatch \/ NextFMA

Spec == Init /\ [][Next]_vars

====
